---- MODULE Spec2Model ----
(***************************************************************************)
(* Model of context_db_mcp.vector_store: request validation, vector store  *)
(* resolution (ensure_vector_store / _find_vector_store_by_name), ingest,  *)
(* retrieve and get_vector_store_info of OpenAIContextStore, run against a *)
(* remote vector store service that may fail any request.                  *)
(*                                                                         *)
(* Text is a sequence of one-character strings.  A Python None is the      *)
(* sentinel None (text), NoneInt (numbers) or NoneAttrs (dicts).  A dict   *)
(* is a function from key strings to text.                                 *)
(***************************************************************************)
EXTENDS Integers, Sequences, FiniteSets, TLC

\* ------------------------------------------------------------------ bounds
Clients == {1, 2}
MaxOps == 2          \* operations one client may start
MaxStores == 3       \* remote stores that can exist; a create beyond it fails
InitStores == 1      \* remote stores that exist before the adapter starts
ListLimit == 1       \* page size of the listing (limit=100 in the source)
MaxClock == 2        \* clock readings are 0..MaxClock

\* ---------------------------------------------------------------- sentinels
None == <<"None">>
NoneInt == -1
NoneAttrs == [none |-> TRUE]
NoStore == [id |-> None, name |-> None, metadata |-> NoneAttrs, by |-> 0]

\* Truthy testing for None only: the empty string passes.
TruthyNotNone(s) == s # None

\* Python truthiness of an Optional[str]: None and "" are falsy.
Truthy(s) == s # None /\ s # <<>>

\* ------------------------------------------------------------- text helpers
Whitespace == {" ", "\t", "\n"}

RECURSIVE LStrip(_)
LStrip(s) == IF s # <<>> /\ Head(s) \in Whitespace THEN LStrip(Tail(s)) ELSE s

RECURSIVE RStrip(_)
RStrip(s) ==
    IF s # <<>> /\ s[Len(s)] \in Whitespace
    THEN RStrip(SubSeq(s, 1, Len(s) - 1)) ELSE s

\* Strip that strips nothing.
StripNothing(s) == s

\* str.strip()
Strip(s) == RStrip(LStrip(s))

Uppers == <<"A", "B", "C", "D", "E", "F", "G", "H", "I", "J", "K", "L", "M",
            "N", "O", "P", "Q", "R", "S", "T", "U", "V", "W", "X", "Y", "Z">>
Lowers == <<"a", "b", "c", "d", "e", "f", "g", "h", "i", "j", "k", "l", "m",
            "n", "o", "p", "q", "r", "s", "t", "u", "v", "w", "x", "y", "z">>

LowerChar(ch) ==
    IF \E i \in 1..Len(Uppers) : Uppers[i] = ch
    THEN Lowers[CHOOSE i \in 1..Len(Uppers) : Uppers[i] = ch] ELSE ch

\* str.lower()
Lower(s) == [i \in 1..Len(s) |-> LowerChar(s[i])]

DigitChar(d) == <<"0", "1", "2", "3", "4", "5", "6", "7", "8", "9">>[d + 1]

RECURSIVE Decimal(_)
Decimal(n) == IF n < 10 THEN <<DigitChar(n)>>
              ELSE Decimal(n \div 10) \o <<DigitChar(n % 10)>>

\* datetime.isoformat() of clock reading t
IsoFormat(t) == <<"T">> \o Decimal(t)

\* identifier the remote gives to the n-th store it creates
StoreId(n) == <<"v">> \o Decimal(n)

\* ------------------------------------------------------------ dict helpers
\* SetDefault overwriting the value of a key that is present: d[k] = v.
SetDefaultOverwrite(d, k, v) ==
    [x \in DOMAIN d \cup {k} |-> IF x = k THEN v ELSE d[x]]

\* dict.setdefault(k, v)
SetDefault(d, k, v) == IF k \in DOMAIN d THEN d ELSE d @@ (k :> v)

\* dict(attrs or {})
DictOrEmpty(attrs) == IF attrs = NoneAttrs \/ DOMAIN attrs = {} THEN <<>> ELSE attrs

\* ------------------------------------------------------------------- state
VARIABLES
    settings,   \* Settings: the defaults, read-only after start-up
    stores,     \* the remote's vector stores, oldest first
    ops,        \* operations started so far
    pc,         \* per caller: idle, resolve, list_next, create, resolved, done
    req,        \* per caller: the request being served
    args,       \* per caller: the arguments of ensure_vector_store
    target,     \* per caller: the name _find_vector_store_by_name looks for
    after,      \* per caller: the listing cursor (position of the last store seen)
    vs,         \* per caller: the vector store ensure_vector_store returned
    log,        \* per caller: the remote calls of the current operation, in order
    warnings,   \* per caller: logger.warning calls of the current operation
    resp        \* per caller: the outcome of the current operation

vars == <<settings, stores, ops, pc, req, args, target, after, vs, log, warnings, resp>>

\* A remote call, as the mocked client would record it.
BaseCall == [call |-> "", ok |-> TRUE, id |-> None, name |-> None,
             metadata |-> NoneAttrs, filename |-> None, content |-> None,
             attributes |-> NoneAttrs, query |-> None,
             max_num_results |-> NoneInt, now |-> NoneInt, reply |-> <<>>,
             cursor |-> 0]

NoRequest == [op |-> "none", content |-> None, query |-> None,
              vector_store_id |-> None, vector_store_name |-> None,
              document_id |-> None, filename |-> None, summary |-> None,
              attributes |-> NoneAttrs, max_results |-> NoneInt,
              score_threshold |-> NoneInt]

NoArgs == [vector_store_id |-> None, vector_store_name |-> None,
           metadata |-> NoneAttrs]

NoResp == [kind |-> "none"]

Raised(error) == [kind |-> "error", error |-> error]

\* ------------------------------------------------------- store resolution
\* ResolvePlan with the name tested before the id.
ResolvePlanNameFirst(vector_store_id, vector_store_name) ==
    IF Truthy(vector_store_name)
    THEN [kind |-> "find", id |-> None, name |-> vector_store_name]
    ELSE IF Truthy(vector_store_id)
    THEN [kind |-> "retrieve", id |-> vector_store_id, name |-> None]
    ELSE IF Truthy(settings.default_vector_store_id)
    THEN [kind |-> "retrieve", id |-> settings.default_vector_store_id,
          name |-> None]
    ELSE IF Truthy(settings.default_vector_store_name)
    THEN [kind |-> "find", id |-> None,
          name |-> settings.default_vector_store_name]
    ELSE [kind |-> "error", id |-> None, name |-> None]

\* ResolvePlan with the default name tested before the default id.
ResolvePlanDefaultNameFirst(vector_store_id, vector_store_name) ==
    IF Truthy(vector_store_id)
    THEN [kind |-> "retrieve", id |-> vector_store_id, name |-> None]
    ELSE IF ~Truthy(vector_store_name)
    THEN IF Truthy(settings.default_vector_store_name)
         THEN [kind |-> "find", id |-> None,
               name |-> settings.default_vector_store_name]
         ELSE IF Truthy(settings.default_vector_store_id)
         THEN [kind |-> "retrieve", id |-> settings.default_vector_store_id,
               name |-> None]
         ELSE [kind |-> "error", id |-> None, name |-> None]
    ELSE [kind |-> "find", id |-> None, name |-> vector_store_name]

\* ResolvePlan with the default id preferred to an explicit name.
ResolvePlanDefaultIdFirst(vector_store_id, vector_store_name) ==
    IF Truthy(vector_store_id)
    THEN [kind |-> "retrieve", id |-> vector_store_id, name |-> None]
    ELSE IF Truthy(settings.default_vector_store_id)
    THEN [kind |-> "retrieve", id |-> settings.default_vector_store_id,
          name |-> None]
    ELSE IF Truthy(vector_store_name)
    THEN [kind |-> "find", id |-> None, name |-> vector_store_name]
    ELSE IF Truthy(settings.default_vector_store_name)
    THEN [kind |-> "find", id |-> None,
          name |-> settings.default_vector_store_name]
    ELSE [kind |-> "error", id |-> None, name |-> None]

\* ResolvePlan without the raise: with nothing configured the lookup by name
\* goes on with no name.
ResolvePlanUnchecked(vector_store_id, vector_store_name) ==
    IF Truthy(vector_store_id)
    THEN [kind |-> "retrieve", id |-> vector_store_id, name |-> None]
    ELSE IF ~Truthy(vector_store_name)
    THEN IF Truthy(settings.default_vector_store_id)
         THEN [kind |-> "retrieve", id |-> settings.default_vector_store_id,
               name |-> None]
         ELSE [kind |-> "find", id |-> None,
               name |-> settings.default_vector_store_name]
    ELSE [kind |-> "find", id |-> None, name |-> vector_store_name]

\* The branch ensure_vector_store takes, before any remote call.
ResolvePlan(vector_store_id, vector_store_name) ==
    IF Truthy(vector_store_id)
    THEN [kind |-> "retrieve", id |-> vector_store_id, name |-> None]
    ELSE IF ~Truthy(vector_store_name)
    THEN IF Truthy(settings.default_vector_store_id)
         THEN [kind |-> "retrieve", id |-> settings.default_vector_store_id,
               name |-> None]
         ELSE IF Truthy(settings.default_vector_store_name)
         THEN [kind |-> "find", id |-> None,
               name |-> settings.default_vector_store_name]
         ELSE [kind |-> "error", id |-> None, name |-> None]
    ELSE [kind |-> "find", id |-> None, name |-> vector_store_name]

\* Plan with a retrieve kept from the lookup by name, which may create.
PlanReadOnly(c) ==
    LET plan == ResolvePlan(args[c].vector_store_id, args[c].vector_store_name)
    IN  IF req[c].op = "retrieve" /\ plan.kind = "find"
        THEN [kind |-> "error", id |-> None, name |-> None] ELSE plan

\* ensure_vector_store as the operation of c calls it.
Plan(c) == ResolvePlan(args[c].vector_store_id, args[c].vector_store_name)

\* One page of vector_stores.list(limit, order="desc"): the positions, newest
\* first, of at most ListLimit stores older than position `before`.
PagePositions(before) ==
    [i \in 1..(IF before - 1 < ListLimit THEN before - 1 ELSE ListLimit)
        |-> before - i]

\* FirstMatch comparing the names without regard to case.
RECURSIVE FirstMatchIgnoreCase(_, _)
FirstMatchIgnoreCase(page, name) ==
    IF page = <<>> THEN 0
    ELSE IF Lower(stores[Head(page)].name) = Lower(name) THEN Head(page)
    ELSE FirstMatchIgnoreCase(Tail(page), name)

\* FirstMatch comparing the identifier of a store, not its name, with `name`.
FirstMatchById(page, name) ==
    LET hits == SelectSeq(page, LAMBDA p : stores[p].id = name)
    IN  IF hits = <<>> THEN 0 ELSE Head(hits)

\* FirstMatch with the name comparison left out: the first store of the page.
FirstMatchAny(page, name) == IF page = <<>> THEN 0 ELSE Head(page)

\* The loop of _find_vector_store_by_name over one page: the position of the
\* first store of the page whose name is `name`, 0 when there is none.
RECURSIVE FirstMatch(_, _)
FirstMatch(page, name) ==
    IF page = <<>> THEN 0
    ELSE IF stores[Head(page)].name = name THEN Head(page)
    ELSE FirstMatch(Tail(page), name)

\* What one caller's step leaves alone.
Others(c, f, v) == [f EXCEPT ![c] = v]

Logged(c, call) == Others(c, log, Append(log[c], call))

\* ensure_vector_store returned `store` to its caller.
Resolved(c, store) ==
    /\ vs' = Others(c, vs, store)
    /\ pc' = Others(c, pc, "resolved")
    /\ resp' = resp

\* An exception left the operation.
Fails(c, error) ==
    /\ pc' = Others(c, pc, "done")
    /\ resp' = Others(c, resp, Raised(error))
    /\ vs' = vs

\* _find_vector_store_by_name over the page of stores older than `before`:
\* return the first store named `name`, else go on to the next page, else
\* return None and let ensure_vector_store create the store.
ScanPage(c, name, before) ==
    LET page == PagePositions(before)
        m == FirstMatch(page, name)
    IN  IF m # 0
        THEN Resolved(c, stores[m]) /\ after' = after
        ELSE /\ vs' = vs
             /\ resp' = resp
             /\ IF page # <<>> /\ page[Len(page)] > 1
                THEN /\ pc' = Others(c, pc, "list_next")
                     /\ after' = Others(c, after, page[Len(page)])
                ELSE /\ pc' = Others(c, pc, "create")
                     /\ after' = after

\* RetrieveStore falling back to the creation of a store when the fetch fails.
RetrieveStoreOrCreate(c) ==
    /\ pc[c] = "resolve"
    /\ Plan(c).kind = "retrieve"
    /\ LET id == Plan(c).id
           found == {i \in 1..Len(stores) : stores[i].id = id}
       IN  \E ok \in BOOLEAN :
             /\ log' = Logged(c, [BaseCall EXCEPT !.call = "retrieve", !.id = id,
                                                 !.ok = ok /\ found # {}])
             /\ IF ok /\ found # {}
                THEN Resolved(c, stores[CHOOSE i \in found : TRUE]) /\ target' = target
                ELSE /\ pc' = Others(c, pc, "create")
                     /\ target' = Others(c, target, id)
                     /\ resp' = resp
                     /\ vs' = vs
    /\ UNCHANGED <<settings, stores, ops, req, args, after, warnings>>

\* ensure_vector_store, id branch: client.vector_stores.retrieve(id).
RetrieveStore(c) ==
    /\ pc[c] = "resolve"
    /\ Plan(c).kind = "retrieve"
    /\ LET id == Plan(c).id
           found == {i \in 1..Len(stores) : stores[i].id = id}
       IN  \E ok \in BOOLEAN :
             /\ log' = Logged(c, [BaseCall EXCEPT !.call = "retrieve", !.id = id,
                                                 !.ok = ok /\ found # {}])
             /\ IF ok /\ found # {}
                THEN Resolved(c, stores[CHOOSE i \in found : TRUE])
                ELSE Fails(c, IF found = {} THEN "NotFoundError" ELSE "APIError")
    /\ UNCHANGED <<settings, stores, ops, req, args, target, after, warnings>>

\* ensure_vector_store with nothing to resolve: ValueError.
NoDefaults(c) ==
    /\ pc[c] = "resolve"
    /\ Plan(c).kind = "error"
    /\ Fails(c, "ValueError")
    /\ UNCHANGED <<settings, stores, ops, req, args, target, after, log, warnings>>

\* _find_vector_store_by_name: client.vector_stores.list(limit, order="desc")
\* and the loop over its first page.
ListStores(c) ==
    /\ pc[c] = "resolve"
    /\ Plan(c).kind = "find"
    /\ target' = Others(c, target, Plan(c).name)
    /\ \E ok \in BOOLEAN :
         /\ log' = Logged(c, [BaseCall EXCEPT !.call = "list", !.ok = ok])
         /\ IF ok
            THEN /\ ScanPage(c, Plan(c).name, Len(stores) + 1)
                 /\ warnings' = warnings
            ELSE /\ warnings' = Others(c, warnings, warnings[c] + 1)
                 /\ pc' = Others(c, pc, "create")
                 /\ UNCHANGED <<vs, resp, after>>
    /\ UNCHANGED <<settings, stores, ops, req, args>>

\* The loop of _find_vector_store_by_name reaching the end of a page: the
\* iterator requests the next page, outside the try block.
ListNextPage(c) ==
    /\ pc[c] = "list_next"
    /\ \E ok \in BOOLEAN :
         /\ log' = Logged(c, [BaseCall EXCEPT !.call = "list", !.ok = ok,
                                             !.cursor = after[c]])
         /\ IF ok
            THEN ScanPage(c, target[c], after[c])
            ELSE Fails(c, "APIError") /\ after' = after
    /\ UNCHANGED <<settings, stores, ops, req, args, target, warnings>>

\* CreateStore made atomic with the lookup: it creates only when no store of
\* that name exists at the time of the create, and returns that store otherwise.
CreateStoreIfAbsent(c) ==
    /\ pc[c] = "create"
    /\ LET new == [id |-> StoreId(Len(stores) + 1), name |-> target[c],
                   metadata |-> args[c].metadata, by |-> c]
           same == {i \in 1..Len(stores) : stores[i].name = target[c]}
       IN  IF same # {}
           THEN /\ Resolved(c, stores[CHOOSE i \in same : TRUE])
                /\ UNCHANGED <<stores, log>>
           ELSE \E ok \in {b \in BOOLEAN : b => Len(stores) < MaxStores} :
                  /\ log' = Logged(c, [BaseCall EXCEPT !.call = "create",
                                         !.ok = ok, !.name = target[c],
                                         !.metadata = args[c].metadata,
                                         !.id = IF ok THEN new.id ELSE None])
                  /\ IF ok
                     THEN Resolved(c, new) /\ stores' = Append(stores, new)
                     ELSE Fails(c, "APIError") /\ stores' = stores
    /\ UNCHANGED <<settings, ops, req, args, target, after, warnings>>

\* ensure_vector_store: client.vector_stores.create(name, metadata).
CreateStore(c) ==
    /\ pc[c] = "create"
    /\ LET new == [id |-> StoreId(Len(stores) + 1), name |-> target[c],
                   metadata |-> args[c].metadata, by |-> c]
       IN  \E ok \in {b \in BOOLEAN : b => Len(stores) < MaxStores} :
             /\ log' = Logged(c, [BaseCall EXCEPT !.call = "create", !.ok = ok,
                                    !.name = target[c],
                                    !.metadata = args[c].metadata,
                                    !.id = IF ok THEN new.id ELSE None])
             /\ IF ok
                THEN Resolved(c, new) /\ stores' = Append(stores, new)
                ELSE Fails(c, "APIError") /\ stores' = stores
    /\ UNCHANGED <<settings, ops, req, args, target, after, warnings>>

\* ------------------------------------------------------------------ ingest
MaxResultsLow == 1
MaxResultsHigh == 50
SlugLen == 40

\* str.replace(" ", "-")
Hyphenate(s) == [i \in 1..Len(s) |-> IF s[i] = " " THEN "-" ELSE s[i]]

\* s[:n]
Prefix(s, n) == SubSeq(s, 1, IF Len(s) < n THEN Len(s) ELSE n)

TxtSuffix == <<".", "t", "x", "t">>
ContextWord == <<"c", "o", "n", "t", "e", "x", "t">>

\* _derive_filename, with t the clock reading of its datetime.now()
DeriveFilename(request, t) ==
    IF Truthy(request.document_id)
    THEN request.document_id \o TxtSuffix
    ELSE IF Truthy(request.summary)
    THEN LET slug == Prefix(Hyphenate(Lower(request.summary)), SlugLen)
         IN  (IF slug # <<>> THEN slug ELSE ContextWord)
                 \o <<"-">> \o Decimal(t) \o TxtSuffix
    ELSE ContextWord \o <<"-">> \o Decimal(t) \o TxtSuffix

\* UploadFilename with the filename always derived.
UploadFilenameDerived(request, t) == DeriveFilename(request, t)

\* request.filename or self._derive_filename(request)
UploadFilename(request, t) ==
    IF Truthy(request.filename) THEN request.filename
    ELSE DeriveFilename(request, t)

\* ComposeAttributes with ingested_at assigned, not defaulted.
ComposeAttributesStamped(request, t) ==
    LET a0 == DictOrEmpty(request.attributes)
        a1 == IF Truthy(request.document_id)
              THEN SetDefault(a0, "document_id", request.document_id) ELSE a0
        a2 == IF Truthy(request.summary)
              THEN SetDefault(a1, "summary", request.summary) ELSE a1
    IN  [x \in DOMAIN a2 \cup {"ingested_at"} |->
            IF x = "ingested_at" THEN IsoFormat(t) ELSE a2[x]]

\* The attributes ingest composes, with t the clock reading of its
\* datetime.now().
ComposeAttributes(request, t) ==
    LET a0 == DictOrEmpty(request.attributes)
        a1 == IF Truthy(request.document_id)
              THEN SetDefault(a0, "document_id", request.document_id) ELSE a0
        a2 == IF Truthy(request.summary)
              THEN SetDefault(a1, "summary", request.summary) ELSE a1
    IN  SetDefault(a2, "ingested_at", IsoFormat(t))

\* RequestAttributes without the copy: the composed map is the request's own
\* map whenever the request has a non-empty one.
RequestAttributesShared(request, attributes) ==
    IF request.attributes # NoneAttrs /\ DOMAIN request.attributes # {}
    THEN attributes ELSE request.attributes

\* The attributes map of the request once ingest has composed `attributes`:
\* dict(...) made a copy, the request's map is as it was.
RequestAttributes(request, attributes) == request.attributes

\* attributes or None
OrNone(attributes) == IF DOMAIN attributes = {} THEN NoneAttrs ELSE attributes

\* IngestMetadata with the empty metadata passed whatever the request.
IngestMetadataAlways(request) == <<>>

\* The metadata ingest hands to ensure_vector_store.
IngestMetadata(request) ==
    IF Truthy(request.vector_store_name) THEN <<>> ELSE NoneAttrs

FileId == <<"f", "1">>
Statuses == {"completed", "failed", "in_progress"}
Clock == 0..MaxClock
VectorStoreFiles == [status : Statuses, echo : BOOLEAN]

\* The name the remote gives the uploaded file in what it reports.
RemoteFilename == <<"r">>

\* IngestDocumentResponse with the status taken as completed.
IngestDocumentResponseCompleted(vector_store, filename, vector_store_file) ==
    [kind |-> "response",
     vector_store_id |-> vector_store.id,
     vector_store_name |-> vector_store.name,
     file_id |-> vector_store_file.id,
     filename |-> filename,
     status |-> "completed",
     attributes |-> vector_store_file.attributes]

\* The response ingest builds from the store, its own filename and the
\* vector store file the remote returned.
IngestDocumentResponse(vector_store, filename, vector_store_file) ==
    [kind |-> "response",
     vector_store_id |-> vector_store.id,
     vector_store_name |-> vector_store.name,
     file_id |-> vector_store_file.id,
     filename |-> filename,
     status |-> vector_store_file.status,
     attributes |-> vector_store_file.attributes]

\* UploadOutcome with the exception swallowed.
UploadOutcomeSwallowed(ok, response) == response

\* upload_and_poll either returns, and ingest returns its response, or
\* raises, and the exception leaves ingest.
UploadOutcome(ok, response) == IF ok THEN response ELSE Raised("APIError")

\* IngestDocumentRequest(...): construction and ensure_store_reference, then
\* ingest up to its call of ensure_vector_store.
IngestDocument(c, request) ==
    /\ pc[c] = "idle"
    /\ ops < MaxOps
    /\ ops' = ops + 1
    /\ req' = Others(c, req, request)
    /\ IF Strip(request.content) = <<>>
       THEN /\ pc' = Others(c, pc, "done")
            /\ resp' = Others(c, resp, Raised("ValidationError"))
            /\ args' = args
       ELSE /\ pc' = Others(c, pc, "resolve")
            /\ resp' = resp
            /\ args' = Others(c, args,
                   [vector_store_id |-> request.vector_store_id,
                    vector_store_name |-> request.vector_store_name,
                    metadata |-> IngestMetadata(request)])
    /\ UNCHANGED <<settings, stores, target, after, vs, log, warnings>>

\* ingest after ensure_vector_store: filename, attributes,
\* client.vector_stores.files.upload_and_poll and the response.  `readings`
\* are the clock readings datetime.now() may give, `files` the vector store
\* files the remote may answer with (a status, and whether it reports the
\* attributes it was sent).
UploadAndPoll(c, readings, files) ==
    /\ pc[c] = "resolved"
    /\ req[c].op = "ingest"
    /\ \E t1 \in readings, t2 \in readings, ok \in BOOLEAN, file \in files :
         LET filename == UploadFilename(req[c], t1)
             attributes == ComposeAttributes(req[c], t2)
             sent == OrNone(attributes)
             vector_store_file ==
                 [id |-> FileId, filename |-> RemoteFilename,
                  status |-> file.status,
                  attributes |-> IF file.echo THEN sent ELSE NoneAttrs]
         IN  /\ t1 <= t2
             /\ ~ok => file = CHOOSE f \in files : TRUE
             /\ log' = Logged(c, [BaseCall EXCEPT !.call = "upload", !.ok = ok,
                                    !.id = vs[c].id, !.filename = filename,
                                    !.content = req[c].content,
                                    !.attributes = sent, !.now = t2,
                                    !.reply = vector_store_file])
             /\ req' = Others(c, req,
                   [req[c] EXCEPT !.attributes =
                                      RequestAttributes(req[c], attributes)])
             /\ pc' = Others(c, pc, "done")
             /\ resp' = Others(c, resp,
                   UploadOutcome(ok, IngestDocumentResponse(vs[c], filename,
                       vector_store_file)))
             /\ warnings' = Others(c, warnings,
                   warnings[c] + IF ok /\ vector_store_file.status # "completed"
                                 THEN 1 ELSE 0)
    /\ UNCHANGED <<settings, stores, ops, args, target, after, vs>>

\* ---------------------------------------------------------------- retrieve
Newlines == <<"\n", "\n">>

\* JoinText over every segment that has a text, whatever its type.
RECURSIVE JoinTextAll(_)
JoinTextAll(content) ==
    IF content = <<>> THEN <<>>
    ELSE IF "text" \notin DOMAIN Head(content) THEN JoinTextAll(Tail(content))
    ELSE LET rest == SelectSeq(Tail(content), LAMBDA ch : "text" \in DOMAIN ch)
         IN  IF rest = <<>> THEN Head(content).text
             ELSE Head(content).text \o Newlines \o JoinTextAll(Tail(content))

\* "\n\n".join(chunk.text for chunk in content if chunk.type == "text")
RECURSIVE JoinText(_)
JoinText(content) ==
    IF content = <<>> THEN <<>>
    ELSE IF Head(content).type # "text" THEN JoinText(Tail(content))
    ELSE LET rest == SelectSeq(Tail(content), LAMBDA ch : ch.type = "text")
         IN  IF rest = <<>> THEN Head(content).text
             ELSE Head(content).text \o Newlines \o JoinText(Tail(content))

\* Skipped dropping a score equal to the threshold too.
SkippedAtThreshold(result, score_threshold) ==
    score_threshold # NoneInt /\ result.score <= score_threshold

\* The test of the loop in retrieve: is `result` skipped?
Skipped(result, score_threshold) ==
    score_threshold # NoneInt /\ result.score < score_threshold

RetrievedChunk(result) ==
    [file_id |-> result.file_id, filename |-> result.filename,
     score |-> result.score, text |-> JoinText(result.content),
     attributes |-> result.attributes]

\* The loop of retrieve over the search results.
RECURSIVE Collected(_, _)
Collected(search_results, score_threshold) ==
    IF search_results = <<>> THEN <<>>
    ELSE IF Skipped(Head(search_results), score_threshold)
    THEN Collected(Tail(search_results), score_threshold)
    ELSE <<RetrievedChunk(Head(search_results))>>
             \o Collected(Tail(search_results), score_threshold)

\* EffectiveMaxResults with the request's max_results ignored.
EffectiveMaxResultsDefault(request) == settings.default_max_results

\* request.max_results or self._settings.default_max_results
EffectiveMaxResults(request) ==
    IF request.max_results # NoneInt /\ request.max_results # 0
    THEN request.max_results ELSE settings.default_max_results

\* The range of max_results with both ends left out.
MaxResultsInRangeExclusive(n) == n > MaxResultsLow /\ n < MaxResultsHigh

\* Field(ge=1, le=50) of max_results.
MaxResultsInRange(n) == n >= MaxResultsLow /\ n <= MaxResultsHigh

\* RetrieveRelevantChunksRequest(...): construction (max_results ge/le) and
\* ensure_query, then retrieve up to its call of ensure_vector_store.
RetrieveRelevantChunks(c, request) ==
    /\ pc[c] = "idle"
    /\ ops < MaxOps
    /\ ops' = ops + 1
    /\ req' = Others(c, req, request)
    /\ IF \/ Strip(request.query) = <<>>
          \/ /\ request.max_results # NoneInt
             /\ ~MaxResultsInRange(request.max_results)
       THEN /\ pc' = Others(c, pc, "done")
            /\ resp' = Others(c, resp, Raised("ValidationError"))
            /\ args' = args
       ELSE /\ pc' = Others(c, pc, "resolve")
            /\ resp' = resp
            /\ args' = Others(c, args,
                   [vector_store_id |-> request.vector_store_id,
                    vector_store_name |-> None,
                    metadata |-> NoneAttrs])
    /\ UNCHANGED <<settings, stores, target, after, vs, log, warnings>>

\* retrieve after ensure_vector_store: client.vector_stores.search, the
\* filter loop and the response.  `replies` is what the remote may answer.
Search(c, replies) ==
    /\ pc[c] = "resolved"
    /\ req[c].op = "retrieve"
    /\ \E ok \in BOOLEAN, search_results \in replies :
         /\ ~ok => search_results = <<>>
         /\ log' = Logged(c, [BaseCall EXCEPT !.call = "search", !.ok = ok,
                                !.id = vs[c].id, !.query = req[c].query,
                                !.max_num_results = EffectiveMaxResults(req[c]),
                                !.reply = search_results])
         /\ pc' = Others(c, pc, "done")
         /\ resp' = Others(c, resp,
               IF ok
               THEN [kind |-> "response",
                     vector_store_id |-> vs[c].id,
                     query |-> req[c].query,
                     results |-> Collected(search_results, req[c].score_threshold)]
               ELSE Raised("APIError"))
    /\ UNCHANGED <<settings, stores, ops, req, args, target, after, vs, warnings>>

\* ------------------------------------------------------------------- info
\* get_vector_store_info up to its call of ensure_vector_store.
GetVectorStoreInfo(c, vector_store_id) ==
    /\ pc[c] = "idle"
    /\ ops < MaxOps
    /\ ops' = ops + 1
    /\ req' = Others(c, req, [NoRequest EXCEPT !.op = "info",
                                               !.vector_store_id = vector_store_id])
    /\ pc' = Others(c, pc, "resolve")
    /\ args' = Others(c, args, [vector_store_id |-> vector_store_id,
                                vector_store_name |-> None,
                                metadata |-> NoneAttrs])
    /\ UNCHANGED <<settings, stores, target, after, vs, log, warnings, resp>>

\* get_vector_store_info after ensure_vector_store.
StoreInfo(c) ==
    /\ pc[c] = "resolved"
    /\ req[c].op = "info"
    /\ pc' = Others(c, pc, "done")
    /\ resp' = Others(c, resp, [kind |-> "response",
                                vector_store_id |-> vs[c].id,
                                vector_store_name |-> vs[c].name])
    /\ UNCHANGED <<settings, stores, ops, req, args, target, after, vs, log, warnings>>

\* The tool call is over: the caller is free for its next call.
Return(c) ==
    /\ pc[c] = "done"
    /\ pc' = Others(c, pc, "idle")
    /\ req' = Others(c, req, NoRequest)
    /\ args' = Others(c, args, NoArgs)
    /\ target' = Others(c, target, None)
    /\ after' = Others(c, after, 0)
    /\ vs' = Others(c, vs, NoStore)
    /\ log' = Others(c, log, <<>>)
    /\ warnings' = Others(c, warnings, 0)
    /\ resp' = Others(c, resp, NoResp)
    /\ UNCHANGED <<settings, stores, ops>>

\* ------------------------------------------------------------ start states
DefaultMaxResults == 10

MissingId == <<"v", "9">>
StoreNames == {<<"d">>, <<"D">>}

\* Settings(): default id and default name, each set or not.
SettingsChoices ==
    [default_vector_store_id : {None, StoreId(1)},
     default_vector_store_name : {None, <<"d">>},
     default_max_results : {DefaultMaxResults}]

\* The remote's stores before the adapter starts: at most InitStores.
ExistingStores ==
    {[i \in 1..Len(names) |-> [id |-> StoreId(i), name |-> names[i],
                               metadata |-> NoneAttrs, by |-> 0]] :
        names \in UNION {[1..n -> StoreNames] : n \in 0..InitStores}}

Init ==
    /\ settings \in SettingsChoices
    /\ stores \in ExistingStores
    /\ ops = 0
    /\ pc = [c \in Clients |-> "idle"]
    /\ req = [c \in Clients |-> NoRequest]
    /\ args = [c \in Clients |-> NoArgs]
    /\ target = [c \in Clients |-> None]
    /\ after = [c \in Clients |-> 0]
    /\ vs = [c \in Clients |-> NoStore]
    /\ log = [c \in Clients |-> <<>>]
    /\ warnings = [c \in Clients |-> 0]
    /\ resp = [c \in Clients |-> NoResp]

\* ------------------------------------------------------------ the requests
StoreIds == {None, <<>>, StoreId(1), MissingId}
ExplicitNames == {None, <<>>, <<"d">>, <<"e">>}
Texts == {<<>>, <<" ", "\n">>, <<" ", "x", " ">>}

IngestRequests ==
    {[NoRequest EXCEPT !.op = "ingest", !.content = content,
                       !.vector_store_id = id, !.vector_store_name = name,
                       !.document_id = doc] :
        content \in Texts, id \in StoreIds, name \in ExplicitNames,
        doc \in {None, <<"a">>}}

RetrieveRequests ==
    {[NoRequest EXCEPT !.op = "retrieve", !.query = query,
                       !.vector_store_id = id, !.max_results = n,
                       !.score_threshold = t] :
        query \in Texts, id \in StoreIds, n \in {NoneInt, 0, 1, 50, 51},
        t \in {NoneInt, 2}}

Hit(score, content) ==
    [file_id |-> FileId, filename |-> <<"a">> \o TxtSuffix, score |-> score,
     content |-> content, attributes |-> NoneAttrs]

OneText == <<[type |-> "text", text |-> <<"x">>]>>

Replies == {<<>>, <<Hit(3, OneText), Hit(1, OneText)>>}

\* ------------------------------------------------------- the specifications
Resolution(c) ==
    \/ RetrieveStore(c)
    \/ NoDefaults(c)
    \/ ListStores(c)
    \/ ListNextPage(c)
    \/ CreateStore(c)

\* One caller at a time: every operation runs alone, one after the other.
Next ==
    \/ \E r \in IngestRequests : IngestDocument(1, r)
    \/ \E r \in RetrieveRequests : RetrieveRelevantChunks(1, r)
    \/ \E id \in StoreIds : GetVectorStoreInfo(1, id)
    \/ Resolution(1)
    \/ UploadAndPoll(1, Clock, VectorStoreFiles)
    \/ Search(1, Replies)
    \/ StoreInfo(1)
    \/ Return(1)

Spec == Init /\ [][Next]_vars

\* Two callers at once: the steps of their operations interleave.
ConcurrentIngestRequests ==
    {[NoRequest EXCEPT !.op = "ingest", !.content = <<"x">>,
                       !.vector_store_name = name] :
        name \in {None, <<"d">>, <<"e">>}}

ConcurrentRetrieveRequests ==
    {[NoRequest EXCEPT !.op = "retrieve", !.query = <<"x">>,
                       !.vector_store_id = id] :
        id \in {None, StoreId(1)}}

NextConcurrent ==
    \E c \in Clients :
        \/ \E r \in ConcurrentIngestRequests : IngestDocument(c, r)
        \/ \E r \in ConcurrentRetrieveRequests : RetrieveRelevantChunks(c, r)
        \/ GetVectorStoreInfo(c, None)
        \/ Resolution(c)
        \/ UploadAndPoll(c, {0}, {[status |-> "completed", echo |-> TRUE]})
        \/ Search(c, Replies)
        \/ StoreInfo(c)
        \/ Return(c)

SpecConcurrent == Init /\ [][NextConcurrent]_vars

\* Attribute composition: ingests into a store given by id, over every
\* caller attributes map on AttributeKeys.
AttributeKeys == {"document_id", "summary", "ingested_at", "k"}

AttributeMaps ==
    {NoneAttrs} \cup UNION {[keys -> {<<"z">>}] : keys \in SUBSET AttributeKeys}

ComposeRequests ==
    {[NoRequest EXCEPT !.op = "ingest", !.content = <<"x">>,
                       !.vector_store_id = StoreId(1),
                       !.document_id = doc, !.summary = summary,
                       !.filename = filename, !.attributes = attributes] :
        doc \in {None, <<>>, <<"a">>}, summary \in {None, <<"S", " ">>},
        filename \in {None, <<"f">>}, attributes \in AttributeMaps}

NextIngest ==
    \/ \E r \in ComposeRequests : IngestDocument(1, r)
    \/ RetrieveStore(1)
    \/ UploadAndPoll(1, Clock, {[status |-> "completed", echo |-> TRUE]})
    \/ Return(1)

SpecIngest == Init /\ [][NextIngest]_vars

\* Filename derivation: ingests into a store given by id, over absent, empty
\* and non-empty filename, document_id and summary, one summary being longer
\* than SlugLen.
LongSummary ==
    [i \in 1..(SlugLen + 1) |->
        IF i = SlugLen + 1 THEN "Z" ELSE IF i % 2 = 0 THEN " " ELSE "A"]

FilenameRequests ==
    {[NoRequest EXCEPT !.op = "ingest", !.content = <<"x">>,
                       !.vector_store_id = StoreId(1),
                       !.document_id = doc, !.summary = summary,
                       !.filename = filename] :
        doc \in {None, <<>>, <<"a">>},
        summary \in {None, <<>>, <<"S", " ">>, LongSummary},
        filename \in {None, <<>>, <<"f">>}}

NextFilename ==
    \/ \E r \in FilenameRequests : IngestDocument(1, r)
    \/ RetrieveStore(1)
    \/ UploadAndPoll(1, Clock, VectorStoreFiles)
    \/ Return(1)

SpecFilename == Init /\ [][NextFilename]_vars

\* Resolution by the defaults followed by the upload: ingests with no store
\* id, with or without the explicit name "e", a document_id, a filename and
\* caller attributes.
ScenarioRequests ==
    {[NoRequest EXCEPT !.op = "ingest", !.content = <<"x">>,
                       !.vector_store_name = name, !.document_id = doc,
                       !.filename = filename, !.attributes = attributes] :
        name \in {None, <<"e">>}, doc \in {None, <<"a">>},
        filename \in {None, <<"f">>},
        attributes \in {NoneAttrs, [document_id |-> <<"z">>], [k |-> <<"z">>]}}

NextScenario ==
    \/ \E r \in ScenarioRequests : IngestDocument(1, r)
    \/ Resolution(1)
    \/ UploadAndPoll(1, {0}, {[status |-> "completed", echo |-> TRUE]})
    \/ Return(1)

SpecScenario == Init /\ [][NextScenario]_vars

\* Score filtering: retrieves from a store given by id, over every reply of
\* at most MaxHits results with scores in 0..MaxScore.
MaxHits == 3
MaxScore == 2

Hits(scores) ==
    [i \in 1..Len(scores) |->
        [file_id |-> <<"f">> \o Decimal(i), filename |-> <<"a">> \o TxtSuffix,
         score |-> scores[i], content |-> OneText, attributes |-> NoneAttrs]]

ScoredReplies ==
    {Hits(scores) : scores \in UNION {[1..n -> 0..MaxScore] : n \in 0..MaxHits}}

FilterRequests ==
    {[NoRequest EXCEPT !.op = "retrieve", !.query = <<"x">>,
                       !.vector_store_id = StoreId(1),
                       !.score_threshold = t] :
        t \in {NoneInt} \cup 0..(MaxScore + 1)}

NextRetrieve ==
    \/ \E r \in FilterRequests : RetrieveRelevantChunks(1, r)
    \/ RetrieveStore(1)
    \/ Search(1, ScoredReplies)
    \/ Return(1)

SpecRetrieve == Init /\ [][NextRetrieve]_vars

\* Text assembly: retrieves from a store given by id, over replies whose first
\* result has any content of at most MaxSegments segments: text segments,
\* empty or not, and segments of other types, with or without a text.
MaxSegments == 3

Segments ==
    {[type |-> "text", text |-> <<"x">>], [type |-> "text", text |-> <<>>],
     [type |-> "image"], [type |-> "other", text |-> <<"z">>]}

Contents == UNION {[1..n -> Segments] : n \in 0..MaxSegments}

SegmentReplies ==
    {<<Hit(1, content)>> : content \in Contents}
        \cup {<<Hit(1, content), Hit(1, <<[type |-> "image"]>>)>> :
                  content \in Contents}

SegmentRequests ==
    {[NoRequest EXCEPT !.op = "retrieve", !.query = <<"x">>,
                       !.vector_store_id = StoreId(1),
                       !.score_threshold = t] : t \in {NoneInt, 1}}

NextSegments ==
    \/ \E r \in SegmentRequests : RetrieveRelevantChunks(1, r)
    \/ RetrieveStore(1)
    \/ Search(1, SegmentReplies)
    \/ Return(1)

SpecSegments == Init /\ [][NextSegments]_vars

\* =================================================================== claims
CallsOf(c, kinds) == SelectSeq(log[c], LAMBDA e : e.call \in kinds)

\* The identifiers of the stores the current operation of c has created.
CreatedIds(c) ==
    {log[c][i].id : i \in {j \in 1..Len(log[c]) :
                              log[c][j].call = "create" /\ log[c][j].ok}}

\* A store named n existed before the current operation of c created any.
ExistedBefore(c, n) ==
    \E i \in 1..Len(stores) :
        stores[i].name = n /\ stores[i].id \notin CreatedIds(c)

\* The operation of c resolves its store by an explicit name.
NameResolution(c) ==
    ~Truthy(args[c].vector_store_id) /\ Truthy(args[c].vector_store_name)

ResolutionOver(c) == pc[c] \in {"resolved", "done"}

\* Every upload and search of c goes to the store ensure_vector_store returned.
UsesResolvedStore(c) ==
    \A i \in 1..Len(log[c]) :
        log[c][i].call \in {"upload", "search"} => log[c][i].id = vs[c].id

\* C1: an operation given an explicit (non-empty) store id issues no create
\* and no list call, whatever name and defaults there are; its only
\* resolution call is one fetch of that id.
C1_ExplicitIdFetchOnly ==
    \A c \in Clients :
        Truthy(req[c].vector_store_id) =>
            /\ CallsOf(c, {"create", "list"}) = <<>>
            /\ Len(CallsOf(c, {"retrieve"})) <= 1
            /\ \A i \in 1..Len(log[c]) :
                   log[c][i].call = "retrieve" =>
                       log[c][i].id = req[c].vector_store_id
            /\ pc[c] = "resolved" => Len(CallsOf(c, {"retrieve"})) = 1

C1_Witness ==
    \E c \in Clients :
        /\ req[c].op = "ingest"
        /\ Truthy(req[c].vector_store_id)
        /\ Truthy(req[c].vector_store_name)
        /\ Truthy(settings.default_vector_store_name)
        /\ pc[c] = "done"
        /\ resp[c].kind = "response"

\* C2 as stated: a resolution by explicit name N issues exactly one create,
\* of name N, and uses the store it returns when no store named N exists;
\* it issues no create and uses the existing store when one exists.
C2_FindOrCreate_AsStated ==
    \A c \in Clients :
        NameResolution(c) /\ ResolutionOver(c) =>
            LET n == args[c].vector_store_name
                creates == CallsOf(c, {"create"})
            IN  IF ExistedBefore(c, n)
                THEN /\ creates = <<>>
                     /\ vs[c] # NoStore => vs[c].name = n
                ELSE /\ Len(creates) = 1
                     /\ creates[1].name = n
                     /\ creates[1].ok =>
                            /\ vs[c].id = creates[1].id
                            /\ vs[c].name = n
                            /\ UsesResolvedStore(c)

\* Every listing request of the current operation of c succeeded.
ListingSucceeded(c) ==
    \A i \in 1..Len(log[c]) : log[c][i].call = "list" => log[c][i].ok

\* C2 (amended): when every listing request of the resolution succeeds, a
\* resolution by explicit name N with no store named exactly N issues exactly
\* one create, of name N, and uses the store it returns; with a store named
\* exactly N it issues no create and uses a store of that name.
C2_FindOrCreate ==
    \A c \in Clients :
        NameResolution(c) /\ ResolutionOver(c) /\ ListingSucceeded(c) =>
            LET n == args[c].vector_store_name
                creates == CallsOf(c, {"create"})
            IN  IF ExistedBefore(c, n)
                THEN /\ creates = <<>>
                     /\ vs[c].name = n
                     /\ vs[c].id \notin CreatedIds(c)
                     /\ UsesResolvedStore(c)
                ELSE /\ Len(creates) = 1
                     /\ creates[1].name = n
                     /\ creates[1].ok =>
                            /\ vs[c].id = creates[1].id
                            /\ vs[c].name = n
                            /\ UsesResolvedStore(c)

\* A store whose name differs from N only by case exists, and the resolution
\* created N and ingested into it.
C2_Witness ==
    \E c \in Clients :
        /\ NameResolution(c)
        /\ ListingSucceeded(c)
        /\ pc[c] = "done"
        /\ resp[c].kind = "response"
        /\ \E i \in 1..Len(stores) :
               /\ stores[i].name # args[c].vector_store_name
               /\ Lower(stores[i].name) = Lower(args[c].vector_store_name)
        /\ resp[c].vector_store_id \in CreatedIds(c)

\* C3: the create step is not atomic with the list step: a caller that found
\* no store named N and reaches the create step creates a new store named N
\* whatever other callers have created since its listing.
C3_CreateAfterListNotAtomic ==
    [][\A c \in Clients :
          pc[c] = "create" /\ pc'[c] = "resolved" =>
              /\ Len(stores') = Len(stores) + 1
              /\ stores'[Len(stores')].name = target[c]
              /\ \A i \in 1..Len(stores) :
                     stores[i].id # stores'[Len(stores')].id]_vars

\* Two ingest calls with the same explicit name, both of whose listings
\* succeeded, have each created a store of that name; none existed before.
C3_Witness ==
    \E c1 \in Clients, c2 \in Clients :
        /\ c1 # c2
        /\ req[c1].op = "ingest" /\ req[c2].op = "ingest"
        /\ NameResolution(c1) /\ NameResolution(c2)
        /\ args[c1].vector_store_name = args[c2].vector_store_name
        /\ ListingSucceeded(c1) /\ ListingSucceeded(c2)
        /\ CreatedIds(c1) # {} /\ CreatedIds(c2) # {}
        /\ CreatedIds(c1) # CreatedIds(c2)
        /\ \A i \in 1..Len(stores) :
               stores[i].name = args[c1].vector_store_name => stores[i].by # 0
        /\ Cardinality({i \in 1..Len(stores) :
               stores[i].name = args[c1].vector_store_name}) = 2

Rejected(c) == resp[c].kind = "error" /\ resp[c].error = "ValidationError"

Last(seq) == seq[Len(seq)]

OkCalls(c, kinds) == SelectSeq(log[c], LAMBDA e : e.call \in kinds /\ e.ok)

\* C4 as stated: an ingest call returns a response carrying a status, or
\* raises before any remote effect (a store created, a file uploaded).
C4_StatusOrNoEffect_AsStated ==
    \A c \in Clients :
        req[c].op = "ingest" /\ pc[c] = "done" =>
            \/ resp[c].kind = "response" /\ "status" \in DOMAIN resp[c]
            \/ resp[c].kind = "error" /\ OkCalls(c, {"create", "upload"}) = <<>>

\* C4 (amended): an ingest call returns a response carrying a status, after
\* exactly one upload call, which the remote accepted, or it raises with no
\* file uploaded; a raise follows a remote effect in one case only: the store
\* the call created by name stays created when the upload after it raises.
C4_StatusOrRaise ==
    \A c \in Clients :
        req[c].op = "ingest" /\ pc[c] = "done" =>
            \/ /\ resp[c].kind = "response"
               /\ "status" \in DOMAIN resp[c]
               /\ Len(CallsOf(c, {"upload"})) = 1
               /\ Last(log[c]).call = "upload" /\ Last(log[c]).ok
            \/ /\ resp[c].kind = "error"
               /\ OkCalls(c, {"upload"}) = <<>>
               /\ CreatedIds(c) # {} =>
                      /\ Last(log[c]).call = "upload" /\ ~Last(log[c]).ok
                      /\ \A id \in CreatedIds(c) :
                             \E i \in 1..Len(stores) : stores[i].id = id

\* An ingest has raised after the store it created by name.
C4_Witness ==
    \E c \in Clients :
        /\ req[c].op = "ingest"
        /\ pc[c] = "done"
        /\ resp[c].kind = "error"
        /\ CreatedIds(c) # {}
        /\ Last(log[c]).call = "upload"

\* C5: a failed listing request, the first or one for a later page, is not
\* propagated: a warning is logged and the resolution goes on to the create.
C5_ListFailureDegrades ==
    \A c \in Clients :
        (\E i \in 1..Len(log[c]) : log[c][i].call = "list" /\ ~log[c][i].ok) =>
            /\ warnings[c] >= 1
            /\ ~(resp[c].kind = "error" /\ Last(log[c]).call = "list")
            /\ ResolutionOver(c) => CallsOf(c, {"create"}) # <<>>

AllWhitespace(s) == \A i \in 1..Len(s) : s[i] \in Whitespace

\* C8: an ingest whose content, or a retrieve whose query, has no
\* non-whitespace character is rejected with a validation error and no remote
\* call; any other content or query is accepted and passed on unmodified.
C8_BlankRejectedBeforeRemote ==
    \A c \in Clients :
        req[c].op \in {"ingest", "retrieve"} =>
            LET text == IF req[c].op = "ingest" THEN req[c].content
                        ELSE req[c].query
                cap == req[c].max_results
            IN  IF AllWhitespace(text)
                THEN pc[c] = "done" /\ Rejected(c) /\ log[c] = <<>>
                ELSE /\ Rejected(c) =>
                            /\ req[c].op = "retrieve"
                            /\ cap # NoneInt
                            /\ cap < MaxResultsLow \/ cap > MaxResultsHigh
                     /\ \A i \in 1..Len(log[c]) :
                            /\ log[c][i].call = "upload" =>
                                   log[c][i].content = text
                            /\ log[c][i].call = "search" =>
                                   log[c][i].query = text

\* A content of whitespace alone was rejected, and nothing was called.
C8_Witness ==
    \E c \in Clients :
        /\ req[c].op = "ingest"
        /\ req[c].content # <<>>
        /\ AllWhitespace(req[c].content)
        /\ Truthy(req[c].vector_store_id)
        /\ pc[c] = "done"
        /\ Rejected(c)
        /\ log[c] = <<>>

Started(c) == pc[c] # "idle" /\ ~Rejected(c)

\* C10: with neither an explicit id nor an explicit name, a configured
\* default id is fetched, with no list and no create, also when a default
\* name is configured; the default name is looked up only without a default id.
C10_DefaultIdBeforeDefaultName ==
    \A c \in Clients :
        /\ Started(c)
        /\ ~Truthy(args[c].vector_store_id)
        /\ ~Truthy(args[c].vector_store_name)
        => IF Truthy(settings.default_vector_store_id)
           THEN /\ CallsOf(c, {"list", "create"}) = <<>>
                /\ \A i \in 1..Len(log[c]) :
                       log[c][i].call = "retrieve" =>
                           log[c][i].id = settings.default_vector_store_id
                /\ ResolutionOver(c) => Len(CallsOf(c, {"retrieve"})) = 1
           ELSE /\ CallsOf(c, {"retrieve"}) = <<>>
                /\ ResolutionOver(c) /\ Truthy(settings.default_vector_store_name)
                       => log[c][1].call = "list"

\* Both defaults are configured, and an operation given neither id nor name
\* has got its response from the store of the default id.
C10_Witness ==
    \E c \in Clients :
        /\ Truthy(settings.default_vector_store_id)
        /\ Truthy(settings.default_vector_store_name)
        /\ req[c].op = "ingest"
        /\ ~Truthy(req[c].vector_store_id)
        /\ ~Truthy(req[c].vector_store_name)
        /\ pc[c] = "done"
        /\ resp[c].kind = "response"
        /\ resp[c].vector_store_id = settings.default_vector_store_id

\* The upload calls of the current operation of c.
Uploads(c) == CallsOf(c, {"upload"})

\* C6 as stated: the attributes of an upload always have ingested_at equal to
\* the timestamp taken during the call, a caller's value being overwritten.
C6_IngestedAtIsNow_AsStated ==
    \A c \in Clients :
        \A i \in 1..Len(Uploads(c)) :
            LET sent == Uploads(c)[i].attributes
            IN  /\ sent # NoneAttrs
                /\ "ingested_at" \in DOMAIN sent
                /\ sent["ingested_at"] = IsoFormat(Uploads(c)[i].now)

\* The caller's attributes map has key k.
Supplied(c, k) ==
    req[c].attributes # NoneAttrs /\ k \in DOMAIN req[c].attributes

\* C6 (amended): the attributes of an upload have ingested_at equal to the
\* timestamp taken during the call when the caller's attributes have no key
\* ingested_at; when they have, the caller's value is kept.
C6_IngestedAtDefaulted ==
    \A c \in Clients :
        \A i \in 1..Len(Uploads(c)) :
            LET sent == Uploads(c)[i].attributes
            IN  /\ sent # NoneAttrs
                /\ "ingested_at" \in DOMAIN sent
                /\ sent["ingested_at"] =
                       IF Supplied(c, "ingested_at")
                       THEN req[c].attributes["ingested_at"]
                       ELSE IsoFormat(Uploads(c)[i].now)

\* An upload has gone out with the caller's own ingested_at.
C6_Witness ==
    \E c \in Clients :
        /\ Supplied(c, "ingested_at")
        /\ Uploads(c) # <<>>
        /\ Uploads(c)[1].ok
        /\ Uploads(c)[1].attributes["ingested_at"] # IsoFormat(Uploads(c)[1].now)

\* The request field an attribute key is derived from.
Field(c, k) == IF k = "document_id" THEN req[c].document_id ELSE req[c].summary

\* C7: the attributes of an upload contain ingested_at; a document_id or
\* summary key of the caller's map keeps the caller's value; the request's
\* field is used only when the caller's map has no such key and the field is
\* given, and the key is absent otherwise.
C7_CallerAttributesWin ==
    \A c \in Clients :
        \A i \in 1..Len(Uploads(c)) :
            LET sent == Uploads(c)[i].attributes
            IN  /\ sent # NoneAttrs
                /\ "ingested_at" \in DOMAIN sent
                /\ \A k \in {"document_id", "summary"} :
                       IF Supplied(c, k)
                       THEN k \in DOMAIN sent /\ sent[k] = req[c].attributes[k]
                       ELSE IF Field(c, k) # None /\ Field(c, k) # <<>>
                       THEN k \in DOMAIN sent /\ sent[k] = Field(c, k)
                       ELSE k \notin DOMAIN sent

\* An upload has gone out for a request whose document_id field and
\* document_id attribute differ.
C7_Witness ==
    \E c \in Clients :
        /\ Supplied(c, "document_id")
        /\ Truthy(req[c].document_id)
        /\ req[c].attributes["document_id"] # req[c].document_id
        /\ Uploads(c) # <<>>
        /\ Uploads(c)[1].ok

\* C9: the results of a retrieve are the remote's results of score >= T, in
\* the remote's order (all of them when no threshold is given).
C9_ThresholdFilter ==
    \A c \in Clients :
        req[c].op = "retrieve" /\ pc[c] = "done" /\ resp[c].kind = "response" =>
            LET t == req[c].score_threshold
                kept == SelectSeq(Last(log[c]).reply,
                                  LAMBDA r : t = NoneInt \/ r.score >= t)
            IN  /\ Len(resp[c].results) = Len(kept)
                /\ \A i \in 1..Len(kept) :
                       /\ resp[c].results[i].file_id = kept[i].file_id
                       /\ resp[c].results[i].score = kept[i].score

\* A reply with a score below, one at and one above the threshold was
\* filtered down to two results.
C9_Witness ==
    \E c \in Clients :
        /\ req[c].op = "retrieve"
        /\ pc[c] = "done"
        /\ resp[c].kind = "response"
        /\ req[c].score_threshold # NoneInt
        /\ LET reply == Last(log[c]).reply
               t == req[c].score_threshold
           IN  /\ \E i \in 1..Len(reply) : reply[i].score < t
               /\ \E i \in 1..Len(reply) : reply[i].score = t
               /\ \E i \in 1..Len(reply) : reply[i].score > t
               /\ Len(resp[c].results) = 2

\* The operation of c names no store and the settings have no default.
NothingToResolve(c) ==
    /\ ~Truthy(args[c].vector_store_id)
    /\ ~Truthy(args[c].vector_store_name)
    /\ ~Truthy(settings.default_vector_store_id)
    /\ ~Truthy(settings.default_vector_store_name)

\* C11: an operation with no explicit id and no explicit name, under settings
\* with no default id and no default name, makes no remote call at all and
\* ends with the error ensure_vector_store raises for a missing configuration.
C11_NoDefaultsNoRemoteCall ==
    \A c \in Clients :
        Started(c) /\ NothingToResolve(c) =>
            /\ log[c] = <<>>
            /\ pc[c] \in {"resolve", "done"}
            /\ pc[c] = "done" => resp[c] = Raised("ValueError")

C11_Witness ==
    \E c \in Clients :
        /\ req[c].op \in {"ingest", "retrieve"}
        /\ NothingToResolve(c)
        /\ pc[c] = "done"
        /\ resp[c] = Raised("ValueError")
        /\ log[c] = <<>>

\* The fetches by id of the current operation of c that failed.
FailedFetches(c) == SelectSeq(log[c], LAMBDA e : e.call = "retrieve" /\ ~e.ok)

\* C12: when the fetch of a store by id, explicit or default, fails, for a
\* store that does not exist or for any other reason, the failure leaves the
\* operation and the failed fetch is its only remote call: no list, no
\* create, no upload, no search and no second fetch.
C12_FetchFailurePropagates ==
    \A c \in Clients :
        FailedFetches(c) # <<>> =>
            /\ Len(log[c]) = 1
            /\ pc[c] = "done"
            /\ resp[c].kind = "error"
            /\ resp[c].error \in {"NotFoundError", "APIError"}
            /\ vs[c] = NoStore

C12_Witness ==
    \E c \in Clients :
        /\ req[c].op = "ingest"
        /\ ~Truthy(req[c].vector_store_id)
        /\ Truthy(settings.default_vector_store_id)
        /\ FailedFetches(c) # <<>>
        /\ pc[c] = "done"
        /\ resp[c] = Raised("APIError")

\* The first 40 characters of a summary, lowercased, spaces made hyphens.
SlugOfFirst40(summary) ==
    [i \in 1..(IF Len(summary) < 40 THEN Len(summary) ELSE 40) |->
        IF summary[i] = " " THEN "-" ELSE LowerChar(summary[i])]

\* A request field is given: it is neither None nor the empty string.
IsGiven(x) == x # None /\ Len(x) > 0

\* The filename of a request by the order filename, document_id, summary,
\* generic name, with t the timestamp.
FilenameFor(request, t) ==
    IF IsGiven(request.filename) THEN request.filename
    ELSE IF IsGiven(request.document_id)
    THEN request.document_id \o <<".", "t", "x", "t">>
    ELSE IF IsGiven(request.summary)
    THEN SlugOfFirst40(request.summary) \o <<"-">> \o Decimal(t)
             \o <<".", "t", "x", "t">>
    ELSE <<"c", "o", "n", "t", "e", "x", "t", "-">> \o Decimal(t)
             \o <<".", "t", "x", "t">>

\* Every upload of c has the filename FilenameFor gives, for a timestamp not
\* later than that of its attributes, and a response has the upload's filename.
FilenameIs(c) ==
    /\ \A i \in 1..Len(Uploads(c)) :
           \E t \in 0..Uploads(c)[i].now :
               Uploads(c)[i].filename = FilenameFor(req[c], t)
    /\ pc[c] = "done" /\ resp[c].kind = "response" =>
           /\ Uploads(c) # <<>>
           /\ resp[c].filename = Last(Uploads(c)).filename

\* C13: the filename of the upload and of the response is the request's
\* filename when one is given, else '<document_id>.txt' when a document_id is
\* given, else the slug of the first 40 characters of a given summary and
\* '-<timestamp>.txt', else 'context-<timestamp>.txt' (an empty string is
\* not a given value).  The response has the filename of the upload, not the
\* one the remote reports.
C13_Filename ==
    \A c \in Clients : req[c].op = "ingest" => FilenameIs(c)

C13_Witness ==
    \E c \in Clients :
        /\ req[c].op = "ingest"
        /\ req[c].filename = <<>>
        /\ req[c].document_id = <<>>
        /\ Len(req[c].summary) > 40
        /\ pc[c] = "done"
        /\ resp[c].kind = "response"
        /\ Len(resp[c].filename) = 40 + Len(<<"-">> \o Decimal(0)) + 4
        /\ resp[c].filename # RemoteFilename

\* C14: an ingest whose store is resolved issues exactly one upload; when
\* that upload returns, whatever status it reports, the ingest returns a
\* response with that very status and raises nothing, and there is never a
\* second upload.
C14_OneUploadStatusVerbatim ==
    \A c \in Clients :
        req[c].op = "ingest" =>
            /\ Len(Uploads(c)) <= 1
            /\ pc[c] = "done" /\ vs[c] # NoStore => Len(Uploads(c)) = 1
            /\ \A i \in 1..Len(Uploads(c)) :
                   Uploads(c)[i].ok =>
                       /\ pc[c] = "done"
                       /\ resp[c].kind = "response"
                       /\ resp[c].status = Uploads(c)[i].reply.status

C14_Witness ==
    \E c \in Clients :
        /\ req[c].op = "ingest"
        /\ pc[c] = "done"
        /\ Len(Uploads(c)) = 1
        /\ Uploads(c)[1].ok
        /\ Uploads(c)[1].reply.status = "in_progress"
        /\ resp[c].kind = "response"
        /\ resp[c].status = "in_progress"
        /\ warnings[c] = 1

\* The calls the adapter makes in the current operation of c: the remote
\* requests less those the list iterator makes for the pages after the first.
AdapterCalls(c) ==
    SelectSeq(log[c], LAMBDA e : ~(e.call = "list" /\ e.cursor # 0))

Kinds(calls) == [i \in 1..Len(calls) |-> calls[i].call]

IsPrefix(a, b) == Len(a) <= Len(b) /\ a = SubSeq(b, 1, Len(a))

\* The operation of c resolves its store by the default name, of which there
\* was no store.
CreatesDefaultStore(c) ==
    /\ Started(c)
    /\ ~Truthy(args[c].vector_store_id)
    /\ ~Truthy(args[c].vector_store_name)
    /\ ~Truthy(settings.default_vector_store_id)
    /\ Truthy(settings.default_vector_store_name)
    /\ ~ExistedBefore(c, settings.default_vector_store_name)

\* The calls of c are a list, a create of the default name and an upload to
\* the created store, in that order: all three once a response is returned,
\* the first ones until then or when one of them fails.
ListCreateUpload(c) ==
    /\ IsPrefix(Kinds(AdapterCalls(c)), <<"list", "create", "upload">>)
    /\ pc[c] = "done" /\ resp[c].kind = "response" =>
           Len(AdapterCalls(c)) = 3
    /\ Len(AdapterCalls(c)) >= 2 =>
           AdapterCalls(c)[2].name = settings.default_vector_store_name
    /\ Len(AdapterCalls(c)) = 3 =>
           /\ AdapterCalls(c)[2].ok
           /\ AdapterCalls(c)[3].id = AdapterCalls(c)[2].id

\* The upload of c is of the file 'D.txt', with attributes that have
\* ingested_at and, unless Excepted, document_id = D.
UploadOfDocument(c, Excepted) ==
    \A i \in 1..Len(Uploads(c)) :
        Truthy(req[c].document_id) /\ ~Truthy(req[c].filename) =>
            /\ Uploads(c)[i].filename
                   = req[c].document_id \o <<".", "t", "x", "t">>
            /\ Uploads(c)[i].attributes # NoneAttrs
            /\ "ingested_at" \in DOMAIN Uploads(c)[i].attributes
            /\ "document_id" \in DOMAIN Uploads(c)[i].attributes
            /\ ~Excepted =>
                   Uploads(c)[i].attributes["document_id"] = req[c].document_id

\* C15 as stated: an ingest with no explicit id or name, no default id, a
\* default name N and no store named N calls list, create(N), upload in that
\* order, the upload going to the created store; with a document_id D and no
\* filename the upload has the filename 'D.txt' and attributes with
\* document_id = D and ingested_at.
C15_DefaultNameScenario_AsStated ==
    \A c \in Clients :
        req[c].op = "ingest" /\ CreatesDefaultStore(c) =>
            ListCreateUpload(c) /\ UploadOfDocument(c, FALSE)

\* C15 (amended): as stated, the attributes having document_id = D when the
\* caller's attributes have no key document_id, and the caller's value for
\* that key when they have.
C15_DefaultNameScenario ==
    \A c \in Clients :
        req[c].op = "ingest" /\ CreatesDefaultStore(c) =>
            /\ ListCreateUpload(c)
            /\ UploadOfDocument(c, Supplied(c, "document_id"))
            /\ \A i \in 1..Len(Uploads(c)) :
                   Supplied(c, "document_id") =>
                       Uploads(c)[i].attributes["document_id"]
                           = req[c].attributes["document_id"]

C15_Witness ==
    \E c \in Clients :
        /\ req[c].op = "ingest"
        /\ CreatesDefaultStore(c)
        /\ req[c].document_id = <<"a">>
        /\ req[c].filename = None
        /\ req[c].attributes = NoneAttrs
        /\ pc[c] = "done"
        /\ resp[c].kind = "response"
        /\ Kinds(log[c]) = <<"list", "create", "upload">>
        /\ resp[c].filename = <<"a", ".", "t", "x", "t">>
        /\ resp[c].vector_store_id \in CreatedIds(c)

\* C16: a retrieve resolves its store as an ingest does: with no id, no
\* default id, a default name N and no store named N, its resolution creates
\* one store named N, and its search goes to that new store.
C16_RetrieveCreates ==
    \A c \in Clients :
        /\ req[c].op = "retrieve"
        /\ CreatesDefaultStore(c)
        /\ ListingSucceeded(c)
        /\ ResolutionOver(c)
        => /\ Len(CallsOf(c, {"create"})) = 1
           /\ CallsOf(c, {"create"})[1].name = settings.default_vector_store_name
           /\ \A i \in 1..Len(CallsOf(c, {"search"})) :
                  /\ CallsOf(c, {"create"})[1].ok
                  /\ CallsOf(c, {"search"})[i].id = CallsOf(c, {"create"})[1].id
           /\ pc[c] = "done" /\ CallsOf(c, {"create"})[1].ok =>
                  Len(CallsOf(c, {"search"})) = 1

C16_Witness ==
    \E c \in Clients :
        /\ req[c].op = "retrieve"
        /\ CreatesDefaultStore(c)
        /\ pc[c] = "done"
        /\ resp[c].kind = "response"
        /\ Kinds(AdapterCalls(c)) = <<"list", "create", "search">>
        /\ resp[c].vector_store_id \in CreatedIds(c)
        /\ \E i \in 1..Len(stores) :
               /\ stores[i].id = resp[c].vector_store_id
               /\ stores[i].name = settings.default_vector_store_name

\* The search calls of the current operation of c.
Searches(c) == CallsOf(c, {"search"})

\* C17: a retrieve given a max_results below 1 or above 50 is rejected at
\* validation, with no remote call; one given a max_results from 1 to 50,
\* both included, is not rejected for it; so every search of a retrieve given
\* a max_results has a cap from 1 to 50.
C17_MaxResultsRange ==
    \A c \in Clients :
        req[c].op = "retrieve" /\ req[c].max_results # NoneInt =>
            /\ req[c].max_results \notin 1..50 => Rejected(c) /\ log[c] = <<>>
            /\ req[c].max_results \in 1..50 /\ ~AllWhitespace(req[c].query) =>
                   ~Rejected(c)
            /\ \A i \in 1..Len(Searches(c)) :
                   Searches(c)[i].max_num_results \in 1..50

C17_Witness ==
    \E c \in Clients :
        /\ req[c].op = "retrieve"
        /\ req[c].max_results = 50
        /\ pc[c] = "done"
        /\ resp[c].kind = "response"
        /\ Len(Searches(c)) = 1
        /\ Searches(c)[1].max_num_results = 50

\* C18: the cap of a search is the max_results of the request when the
\* request has one, and the default cap of the settings when it has none.
C18_CapForwarded ==
    \A c \in Clients :
        \A i \in 1..Len(Searches(c)) :
            Searches(c)[i].max_num_results =
                IF req[c].max_results # NoneInt THEN req[c].max_results
                ELSE settings.default_max_results

C18_Witness ==
    \E c \in Clients :
        /\ req[c].op = "retrieve"
        /\ req[c].max_results = NoneInt
        /\ Len(Searches(c)) = 1
        /\ Searches(c)[1].ok
        /\ Searches(c)[1].max_num_results = settings.default_max_results
        /\ settings.default_max_results \notin {1, 50}

\* The segments of type text of a content, in order.
TextSegments(content) == SelectSeq(content, LAMBDA ch : ch.type = "text")

\* The texts of segments, in order, with a blank line between two of them.
RECURSIVE JoinedByBlankLine(_)
JoinedByBlankLine(segments) ==
    IF segments = <<>> THEN <<>>
    ELSE IF Len(segments) = 1 THEN segments[1].text
    ELSE JoinedByBlankLine(SubSeq(segments, 1, Len(segments) - 1))
             \o <<"\n", "\n">> \o segments[Len(segments)].text

\* C19: the text of each returned chunk is the texts of the result's segments
\* of type text, in order, joined by a blank line; segments of other types
\* add nothing and raise nothing; a result with no text segment is returned,
\* with an empty text.
C19_TextOfTextSegments ==
    \A c \in Clients :
        req[c].op = "retrieve" /\ Searches(c) # <<>> /\ Last(Searches(c)).ok =>
            LET t == req[c].score_threshold
                kept == SelectSeq(Last(Searches(c)).reply,
                                  LAMBDA r : t = NoneInt \/ r.score >= t)
            IN  /\ pc[c] = "done"
                /\ resp[c].kind = "response"
                /\ Len(resp[c].results) = Len(kept)
                /\ \A i \in 1..Len(kept) :
                       resp[c].results[i].text =
                           JoinedByBlankLine(TextSegments(kept[i].content))

C19_Witness ==
    \E c \in Clients :
        /\ req[c].op = "retrieve"
        /\ pc[c] = "done"
        /\ resp[c].kind = "response"
        /\ LET reply == Last(Searches(c)).reply
           IN  /\ Len(reply) = 2
               /\ Len(reply[1].content) = 3
               /\ Len(TextSegments(reply[1].content)) = 2
               /\ reply[1].content[2].type = "other"
               /\ TextSegments(reply[2].content) = <<>>
               /\ Len(resp[c].results) = 2
               /\ resp[c].results[1].text = <<"x", "\n", "\n", "x">>
               /\ resp[c].results[2].text = <<>>

\* The metadata of the operation of c, and of every create it made, is the
\* empty attribute set when the request gives a store name, absent when not.
MetadataIs(c) ==
    LET empty == IsGiven(req[c].vector_store_name)
        Right(metadata) == DOMAIN metadata = IF empty THEN {} ELSE {"none"}
    IN  /\ Right(args[c].metadata)
        /\ \A i \in 1..Len(log[c]) :
               log[c][i].call = "create" => Right(log[c][i].metadata)

\* C20: the metadata ingest passes to the resolution, and to a create, is the
\* empty attribute set exactly when the request gives a store name, and
\* absent otherwise (no name, or the empty string), also when the store is
\* created from the default name; it has none of the document's attributes.
C20_IngestMetadata ==
    \A c \in Clients :
        req[c].op = "ingest" /\ Started(c) =>
            /\ MetadataIs(c)
            /\ \A i \in 1..Len(log[c]), j \in 1..Len(Uploads(c)) :
                   log[c][i].call = "create" =>
                       DOMAIN log[c][i].metadata
                           \cap DOMAIN Uploads(c)[j].attributes = {}

C20_Witness ==
    \E c \in Clients :
        /\ req[c].op = "ingest"
        /\ req[c].vector_store_name = <<>>
        /\ Truthy(req[c].document_id)
        /\ Truthy(settings.default_vector_store_name)
        /\ pc[c] = "done"
        /\ resp[c].kind = "response"
        /\ Kinds(AdapterCalls(c)) = <<"list", "create", "upload">>
        /\ log[c][2].name = settings.default_vector_store_name
        /\ log[c][2].metadata = NoneAttrs

\* C21: no step of an ingest changes the attributes map of its request: from
\* the call to its end, with a response or with an error, the map has the
\* keys and values it was given.
C21_RequestAttributesKept ==
    [][\A c \in Clients :
           req[c].op = "ingest" /\ pc[c] # "done" =>
               /\ req'[c].op = "ingest"
               /\ req'[c].attributes = req[c].attributes]_vars

C21_Witness ==
    \E c \in Clients :
        /\ req[c].op = "ingest"
        /\ pc[c] = "done"
        /\ Truthy(req[c].document_id)
        /\ Truthy(req[c].summary)
        /\ Uploads(c) # <<>>
        /\ DOMAIN req[c].attributes = {"k"}
        /\ DOMAIN Last(Uploads(c)).attributes
               = {"k", "document_id", "summary", "ingested_at"}

\* The stores named n that the adapter created.
CreatedNamed(n) == {i \in 1..Len(stores) : stores[i].name = n /\ stores[i].by # 0}

\* No name has two stores created by the adapter.
OneStorePerName ==
    \A i \in 1..Len(stores) : Cardinality(CreatedNamed(stores[i].name)) <= 1

\* No listing request of an operation in progress has failed.
NoListingFailed == \A c \in Clients : ListingSucceeded(c)

\* C22: operations run one after the other, with no listing request ever
\* failing and no store deleted, create at most one store of any name: the
\* stores the adapter created never include two of one name.
C22_SequentialIdempotent == []NoListingFailed => []OneStorePerName

C22_Witness ==
    \E c \in Clients :
        /\ ops = 2
        /\ pc[c] = "done"
        /\ resp[c].kind = "response"
        /\ Truthy(target[c])
        /\ CallsOf(c, {"list"}) # <<>>
        /\ ListingSucceeded(c)
        /\ CallsOf(c, {"create"}) = <<>>
        /\ Cardinality(CreatedNamed(target[c])) = 1
        /\ resp[c].vector_store_id = stores[CHOOSE i \in CreatedNamed(target[c]) : TRUE].id

\* C23: an operation with no explicit id and a non-empty explicit name
\* consults no default: it issues no fetch by id, looks up and creates only
\* the explicit name, and the store it resolves to has that name, also when a
\* default id or a default name is configured.
C23_ExplicitNameOverridesDefaults ==
    \A c \in Clients :
        /\ Started(c)
        /\ ~IsGiven(req[c].vector_store_id)
        /\ IsGiven(req[c].vector_store_name)
        => /\ CallsOf(c, {"retrieve"}) = <<>>
           /\ pc[c] # "resolve" => target[c] = req[c].vector_store_name
           /\ \A i \in 1..Len(log[c]) :
                  log[c][i].call = "create" =>
                      log[c][i].name = req[c].vector_store_name
           /\ vs[c] # NoStore => vs[c].name = req[c].vector_store_name
           /\ pc[c] = "done" => resp[c] # Raised("ValueError")

C23_Witness ==
    \E c \in Clients :
        /\ req[c].op = "ingest"
        /\ ~IsGiven(req[c].vector_store_id)
        /\ req[c].vector_store_name = <<"e">>
        /\ settings.default_vector_store_id = StoreId(1)
        /\ settings.default_vector_store_name = <<"d">>
        /\ \E i \in 1..Len(stores) : stores[i].id = StoreId(1)
        /\ pc[c] = "done"
        /\ resp[c].kind = "response"
        /\ resp[c].vector_store_name = <<"e">>
        /\ resp[c].vector_store_id # StoreId(1)

\* The operation of c has neither a store id nor a store name that is not
\* the empty string, one of the two being the empty string.
EmptyForAbsent(c) ==
    /\ ~IsGiven(req[c].vector_store_id)
    /\ ~IsGiven(req[c].vector_store_name)
    /\ <<>> \in {req[c].vector_store_id, req[c].vector_store_name}

\* C24: the empty string as store id or store name counts as absent.  No
\* operation fetches the id '' or looks up or creates a store named ''; given
\* the id '' and a name, the name is resolved; given the id '' or the name ''
\* and nothing else, the defaults are: the default id is fetched, else the
\* default name looked up, else the operation fails for want of a store.  An
\* ingest given the name '' passes absent metadata, not empty metadata.
C24_EmptyStringIsAbsent ==
    \A c \in Clients :
        Started(c) =>
            /\ \A i \in 1..Len(log[c]) :
                   /\ log[c][i].call = "retrieve" => log[c][i].id # <<>>
                   /\ log[c][i].call = "create" => log[c][i].name # <<>>
            /\ target[c] # <<>>
            /\ \A i \in 1..Len(stores) : stores[i].name # <<>>
            /\ req[c].vector_store_id = <<>> /\ IsGiven(req[c].vector_store_name)
                   => /\ CallsOf(c, {"retrieve"}) = <<>>
                      /\ pc[c] # "resolve" =>
                             target[c] = req[c].vector_store_name
            /\ EmptyForAbsent(c) /\ pc[c] # "resolve"
                   => IF IsGiven(settings.default_vector_store_id)
                      THEN /\ Len(log[c]) >= 1
                           /\ log[c][1].call = "retrieve"
                           /\ log[c][1].id = settings.default_vector_store_id
                      ELSE IF IsGiven(settings.default_vector_store_name)
                      THEN /\ Len(log[c]) >= 1
                           /\ log[c][1].call = "list"
                           /\ target[c] = settings.default_vector_store_name
                      ELSE log[c] = <<>> /\ resp[c] = Raised("ValueError")
            /\ req[c].op = "ingest" /\ req[c].vector_store_name = <<>>
                   => DOMAIN args[c].metadata = {"none"}

C24_Witness ==
    \E c \in Clients :
        /\ req[c].op = "ingest"
        /\ req[c].vector_store_id = <<>>
        /\ req[c].vector_store_name = <<>>
        /\ ~IsGiven(settings.default_vector_store_id)
        /\ IsGiven(settings.default_vector_store_name)
        /\ pc[c] = "done"
        /\ resp[c].kind = "response"
        /\ resp[c].vector_store_name = settings.default_vector_store_name
        /\ CallsOf(c, {"create"}) # <<>>
        /\ CallsOf(c, {"create"})[1].metadata = NoneAttrs

====
